---- MODULE Spec2Model ----
(***************************************************************************)
(* QLoRA fine-tuning of Falcon-7B as driven by 01-PEFT_QLora-PB2.ipynb.    *)
(*                                                                         *)
(* The notebook is a sequence of cells that call transformers, peft and    *)
(* bitsandbytes at pinned revisions.  Each cell is one action; each        *)
(* library call the cells make is an operator that computes what the call  *)
(* computes at that revision.  Real numbers are fixed-point integers.      *)
(***************************************************************************)
EXTENDS Integers, Sequences, FiniteSets, TLC

VARIABLES
    \* ---- the notebook ----
    pc,                \* the next cell to run
    checkpoint,        \* the pretrained weights published under model_id
    name_or_path,      \* identifier the base model was loaded from
    modules,           \* model.named_modules(): sequence of module records
    qweight,           \* module key -> stored 4-bit state of its weight
    fpweight,          \* module key -> value of a weight kept in floating point
    lora,              \* module key -> [A, B], the adapter matrices
    requires_grad,     \* parameter -> BOOLEAN
    peft_config,       \* the LoraConfig held by the wrapped model
    gradient_checkpointing,
    use_cache,         \* model.config.use_cache
    training,          \* model.training (train() / eval() mode)
    \* ---- transformers.Trainer ----
    phase,             \* Idle, Forward, Backward, OptimizerStep, Evaluate
    optimizer,         \* parameter -> optimizer state, for the optimizer's parameters
    global_step,
    batch_idx,         \* batches taken from the train dataloader so far
    batch,             \* the batch of the step in progress
    output,            \* module key -> output of the last forward pass
    grads,             \* parameter -> gradient of the last backward pass
    failure,           \* the exception that ended the run, or "none"
    eval_loss,         \* what trainer.evaluate() reported
    \* ---- persistence ----
    artifact,          \* the directory written by save_pretrained
    loaded,            \* the model rebuilt from the artifact
    \* ---- quantization round trip ----
    qpc, qM, qQ, qD, qQ2,
    \* ---- adapter injection over configurations ----
    ipc, iModules, iConfig, iResult,
    \* ---- adapter loading over base models ----
    lpc, lArtifact, lBase, lResult,
    \* ---- the inference cells ----
    gpc,               \* the next inference cell to run
    tokenizer,         \* the tokenizer of the reloaded model
    orig_tokenizer,
    generation_config,       \* the object model.generation_config
    orig_generation_config,  \* the object orig_model.generation_config
    generation_config_temperature,       \* plain names the cells bind
    generation_config_eod_token_id,
    orig_generation_config_temperature,
    orig_generation_config_eod_token_id,
    encoding,          \* what the tokenizer returned last
    generate_call,     \* the last model.generate call: its arguments and the encoding in scope
    outputs,           \* what the last model.generate call returned
    printed,           \* what the cells have printed, in order
    \* ---- answer extraction over decoded texts ----
    apc, aResponse, aAnswer

nbvars == << pc, checkpoint, name_or_path, modules, qweight, fpweight, lora, requires_grad,
             peft_config, gradient_checkpointing, use_cache, training >>
trvars == << phase, optimizer, global_step, batch_idx, batch, output, grads,
             failure, eval_loss >>
pvars  == << artifact, loaded >>
qvars  == << qpc, qM, qQ, qD, qQ2 >>
ivars  == << ipc, iModules, iConfig, iResult >>
lvars  == << lpc, lArtifact, lBase, lResult >>
gvars  == << gpc, tokenizer, orig_tokenizer, generation_config,
             orig_generation_config, generation_config_temperature,
             generation_config_eod_token_id, orig_generation_config_temperature,
             orig_generation_config_eod_token_id, encoding, generate_call,
             outputs, printed >>
avars  == << apc, aResponse, aAnswer >>
vars   == << nbvars, trvars, pvars, qvars, ivars, lvars, gvars, avars >>

(***************************************************************************)
(* Bounds of the model.                                                    *)
(***************************************************************************)
\* values per quantization block (bitsandbytes uses 64)
QBlockSize == 2
\* quantization blocks per weight matrix
NumQBlocks == 2
\* layer widths of Falcon-7B: the hidden size, and the output of the fused
\* query_key_value projection (hidden size plus one key and one value head)
HiddenSize == 4544
QKVSize == 4672
\* transformer blocks of the base model (Falcon-7B has 32)
NumLayers == 2
\* input and output features of every linear layer of the scaled-down model
InFeatures == 2
OutFeatures == 3
\* batches the train dataloader yields in the one epoch
NumBatches == 3

(***************************************************************************)
(* Arithmetic helpers.                                                     *)
(***************************************************************************)
Abs(x) == IF x < 0 THEN -x ELSE x

Sign(x) == IF x > 0 THEN 1 ELSE IF x < 0 THEN -1 ELSE 0

SetMax(S) == CHOOSE m \in S : \A y \in S : y <= m

\* a / b rounded to the nearest integer, halves away from zero (b > 0)
RoundDiv(a, b) == IF a >= 0 THEN (2 * a + b) \div (2 * b)
                  ELSE -((2 * (-a) + b) \div (2 * b))

RECURSIVE SeqSum(_)
SeqSum(s) == IF s = <<>> THEN 0 ELSE Head(s) + SeqSum(Tail(s))

(***************************************************************************)
(* 4-bit NormalFloat quantization (bnb_4bit_quant_type = "nf4") with       *)
(* optional double quantization of the per-block scales.                   *)
(***************************************************************************)
\* one unit of the code tables: table entry 10000 stands for 1.0
FixedScale == 10000

\* the 16 NF4 code values, code c at position c + 1
NF4 == << -10000, -6962, -5251, -3949, -2844, -1848, -911, 0,
          796, 1609, 2461, 3379, 4407, 5626, 7230, 10000 >>

\* the 8-bit dynamic map the scales are quantized with (create_dynamic_map,
\* signed, 7 exponent bits), at the resolution of FixedScale: the entries
\* that differ by less than one unit coincide
Map8 == << -9930, -9789, -9648, -9508, -9367, -9227, -9086, -8945, -8805,
           -8664, -8523, -8383, -8242, -8102, -7961, -7820, -7680, -7539,
           -7398, -7258, -7117, -6977, -6836, -6695, -6555, -6414, -6273,
           -6133, -5992, -5852, -5711, -5570, -5430, -5289, -5148, -5008,
           -4867, -4727, -4586, -4445, -4305, -4164, -4023, -3883, -3742,
           -3602, -3461, -3320, -3180, -3039, -2898, -2758, -2617, -2477,
           -2336, -2195, -2055, -1914, -1773, -1633, -1492, -1352, -1211,
           -1070, -986, -958, -930, -902, -873, -845, -817, -789, -761, -733,
           -705, -677, -648, -620, -592, -564, -536, -508, -480, -452, -423,
           -395, -367, -339, -311, -283, -255, -227, -198, -170, -142, -114,
           -97, -92, -86, -80, -75, -69, -63, -58, -52, -47, -41, -35, -30,
           -24, -18, -13, -9, -8, -7, -6, -5, -4, -3, -2, -1, 0, 1, 2, 3, 4,
           5, 6, 7, 8, 9, 13, 18, 24, 30, 35, 41, 47, 52, 58, 63, 69, 75, 80,
           86, 92, 97, 114, 142, 170, 198, 227, 255, 283, 311, 339, 367, 395,
           423, 452, 480, 508, 536, 564, 592, 620, 648, 677, 705, 733, 761,
           789, 817, 845, 873, 902, 930, 958, 986, 1070, 1211, 1352, 1492,
           1633, 1773, 1914, 2055, 2195, 2336, 2477, 2617, 2758, 2898, 3039,
           3180, 3320, 3461, 3602, 3742, 3883, 4023, 4164, 4305, 4445, 4586,
           4727, 4867, 5008, 5148, 5289, 5430, 5570, 5711, 5852, 5992, 6133,
           6273, 6414, 6555, 6695, 6836, 6977, 7117, 7258, 7398, 7539, 7680,
           7820, 7961, 8102, 8242, 8383, 8523, 8664, 8805, 8945, 9086, 9227,
           9367, 9508, 9648, 9789, 9930, 10000 >>

\* the block an element belongs to; blocks are consecutive runs of
\* QBlockSize elements, the last one shorter when the size does not divide
BlockOf(i) == ((i - 1) \div QBlockSize) + 1

BlockCount(n) == (n + QBlockSize - 1) \div QBlockSize

BlockIndices(b, n) == {i \in 1..n : BlockOf(i) = b}

\* the code of x in a block of scale absmax: the nearest table value to
\* x / absmax, found by comparing against the midpoints of the table (a
\* value on a midpoint takes the lower code; 0/0 fails every comparison
\* and takes code 0)
dQuantizeNF4(x, absmax) ==
    Cardinality({t \in 1..15 :
                   2 * FixedScale * x > (NF4[t] + NF4[t + 1]) * absmax})

\* the position in Map8 of the value nearest to x / absmax2
dQuantize8(x, absmax2) ==
    1 + Cardinality({t \in 1..(Len(Map8) - 1) :
                       2 * FixedScale * x > (Map8[t] + Map8[t + 1]) * absmax2})

\* the per-block scales: the largest magnitude of each block
BlockAbsmax(A) ==
    [b \in 1..BlockCount(Len(A)) |->
        SetMax({Abs(A[i]) : i \in BlockIndices(b, Len(A))})]

\* quantize_blockwise of the scales, one block of 256 covering them all
quantize_blockwise(v) ==
    LET absmax2 == SetMax({Abs(v[b]) : b \in 1..Len(v)} \cup {0})
    IN  [q |-> [b \in 1..Len(v) |-> dQuantize8(v[b], absmax2)],
         absmax2 |-> absmax2]

dequantize_blockwise(q, absmax2) ==
    [b \in 1..Len(q) |-> RoundDiv(Map8[q[b]] * absmax2, FixedScale)]

\* quantize_4bit(A, compress_statistics): codes, and the scales either as
\* they are or quantized again around their mean
quantize_4bit(A, compress_statistics) ==
    LET absmax == BlockAbsmax(A)
        codes  == [i \in 1..Len(A) |-> dQuantizeNF4(A[i], absmax[BlockOf(i)])]
        offset == IF Len(absmax) = 0 THEN 0
                  ELSE RoundDiv(SeqSum(absmax), Len(absmax))
        state2 == quantize_blockwise([b \in 1..Len(absmax) |-> absmax[b] - offset])
    IN  IF compress_statistics
        THEN [codes |-> codes, absmax |-> state2.q, nested |-> TRUE,
              offset |-> offset, absmax2 |-> state2.absmax2]
        ELSE [codes |-> codes, absmax |-> absmax, nested |-> FALSE,
              offset |-> 0, absmax2 |-> 0]

\* the scales a quantized matrix is decoded with
StateAbsmax(Q) ==
    IF Q.nested
    THEN LET d == dequantize_blockwise(Q.absmax, Q.absmax2)
         IN  [b \in 1..Len(d) |-> d[b] + Q.offset]
    ELSE Q.absmax

\* a decoder that reads the 4-bit code on the evenly spaced int4 grid
\* instead of the NF4 table
dequantize_4bit_linear(Q) ==
    LET absmax == StateAbsmax(Q)
    IN  [i \in 1..Len(Q.codes) |->
            RoundDiv((2 * Q.codes[i] - 15) * absmax[BlockOf(i)], 15)]

\* dequantize_4bit: table value times the block's scale
dequantize_4bit(Q) ==
    LET absmax == StateAbsmax(Q)
    IN  [i \in 1..Len(Q.codes) |->
            RoundDiv(NF4[Q.codes[i] + 1] * absmax[BlockOf(i)], FixedScale)]

(***************************************************************************)
(* The base model.  A module key is the dotted name named_modules() gives, *)
(* held as the sequence of its characters.                                 *)
(***************************************************************************)
model_id == "tiiuae/falcon-7b"

bnb_config == [load_in_4bit |-> TRUE, bnb_4bit_use_double_quant |-> TRUE,
               bnb_4bit_quant_type |-> "nf4",
               bnb_4bit_compute_dtype |-> "bfloat16"]

\* a weight of out_features rows of in_features values is held flat, row
\* after row, as the quantizer sees it
WeightLen(inf, outf) == inf * outf

Module(key, kind, inf, outf) ==
    [key |-> key, kind |-> kind, in_features |-> inf,
     out_features |-> outf, lora_layer |-> FALSE, r |-> 0]

\* str(i)
RECURSIVE Digits(_)
Digits(i) ==
    LET d == << "0", "1", "2", "3", "4", "5", "6", "7", "8", "9" >>[(i % 10) + 1]
    IN  IF i < 10 THEN << d >> ELSE Append(Digits(i \div 10), d)

\* the modules of decoder block i: transformer.h.<i>.input_layernorm,
\* .self_attention.query_key_value, .self_attention.dense,
\* .mlp.dense_h_to_4h, .mlp.dense_4h_to_h
BlockModules(i, inf, outf) ==
    LET h == << "t", "r", "a", "n", "s", "f", "o", "r", "m", "e", "r", ".",
                "h", "." >>
                \o Digits(i) \o << "." >>
    IN  << Module(h \o << "i", "n", "p", "u", "t", "_", "l", "a", "y", "e",
                        "r", "n", "o", "r", "m" >>,
                  "LayerNorm", inf, outf),
           Module(h \o << "s", "e", "l", "f", "_", "a", "t", "t", "e", "n",
                        "t", "i", "o", "n", ".", "q", "u", "e", "r", "y", "_",
                        "k", "e", "y", "_", "v", "a", "l", "u", "e" >>,
                  "Linear", inf, outf),
           Module(h \o << "s", "e", "l", "f", "_", "a", "t", "t", "e", "n",
                        "t", "i", "o", "n", ".", "d", "e", "n", "s", "e" >>,
                  "Linear", inf, outf),
           Module(h \o << "m", "l", "p", ".", "d", "e", "n", "s", "e", "_",
                        "h", "_", "t", "o", "_", "4", "h" >>,
                  "Linear", inf, outf),
           Module(h \o << "m", "l", "p", ".", "d", "e", "n", "s", "e", "_",
                        "4", "h", "_", "t", "o", "_", "h" >>,
                  "Linear", inf, outf) >>

RECURSIVE BlocksUpTo(_, _, _)
BlocksUpTo(n, inf, outf) ==
    IF n = 0 THEN <<>>
    ELSE BlocksUpTo(n - 1, inf, outf) \o BlockModules(n - 1, inf, outf)

\* the modules of the Falcon architecture, in definition order, for a
\* hidden size of inf inputs and outf outputs per layer
FalconArchitecture(inf, outf) ==
    \* transformer.word_embeddings
    << Module(<< "t", "r", "a", "n", "s", "f", "o", "r", "m", "e", "r", ".",
                 "w", "o", "r", "d", "_", "e", "m", "b", "e", "d", "d", "i",
                 "n", "g", "s" >>,
              "Embedding", inf, outf) >>
    \o BlocksUpTo(NumLayers, inf, outf)
    \* transformer.ln_f, lm_head
    \o << Module(<< "t", "r", "a", "n", "s", "f", "o", "r", "m", "e", "r",
                    ".", "l", "n", "_", "f" >>,
                 "LayerNorm", inf, outf),
          Module(<< "l", "m", "_", "h", "e", "a", "d" >>, "Linear", inf, outf) >>

FalconModules == FalconArchitecture(InFeatures, OutFeatures)

Keys(mods) == {mods[i].key : i \in 1..Len(mods)}

ModuleAt(mods, key) == mods[CHOOSE i \in 1..Len(mods) : mods[i].key = key]

KeysOfKind(mods, kinds) == {mods[i].key : i \in {j \in 1..Len(mods) : mods[j].kind \in kinds}}

\* the parameters a module list holds: every module's weight, and the two
\* adapter matrices of every LoRA layer that has them
Params(mods) ==
    {<<mods[i].key, "weight">> : i \in 1..Len(mods)}
    \cup UNION {{<<mods[i].key, "lora_A">>, <<mods[i].key, "lora_B">>} :
                  i \in {j \in 1..Len(mods) : mods[j].lora_layer /\ mods[j].r > 0}}

\* "lora_" in n
IsLoraParam(p) == p[2] \in {"lora_A", "lora_B"}

\* pretrained weights of a layer of inf inputs and outf outputs, as a
\* checkpoint holds them
Pretrained(c, inf, outf) ==
    IF c = 1
    THEN [j \in 1..WeightLen(inf, outf) |-> IF j % 2 = 1 THEN 300 ELSE -900]
    ELSE [j \in 1..WeightLen(inf, outf) |-> IF j = 1 THEN 700 ELSE 200]

PretrainedChoices == {Pretrained(1, InFeatures, OutFeatures),
                      Pretrained(2, InFeatures, OutFeatures)}

\* AutoModelForCausalLM.from_pretrained with a 4-bit quantization_config:
\* every nn.Linear but the output head becomes a Linear4bit whose weight
\* is stored quantized and does not require grad
\* the layers stored in 4 bits: every nn.Linear but the output head
QuantizedKeys(mods) ==
    KeysOfKind(mods, {"Linear"}) \ {<< "l", "m", "_", "h", "e", "a", "d" >>}

replace_with_bnb_linear(mods) ==
    [i \in 1..Len(mods) |->
        IF mods[i].key \in QuantizedKeys(mods)
        THEN [mods[i] EXCEPT !.kind = "Linear4bit"]
        ELSE mods[i]]

FromPretrained4bit(mods, W, cfg) ==
    LET quantized == QuantizedKeys(mods)
        mods4     == replace_with_bnb_linear(mods)
    IN  [modules  |-> mods4,
         qweight  |-> [k \in quantized |->
                         quantize_4bit(W, cfg.bnb_4bit_use_double_quant)],
         fpweight |-> [k \in Keys(mods) \ quantized |-> W],
         requires_grad |-> [p \in Params(mods4) |-> p[1] \notin quantized]]

\* prepare_model_for_kbit_training: freeze every parameter of the base
\* model (the cast of the 16-bit parameters to float32 keeps their values)
prepare_model_for_kbit_training(rg) == [p \in DOMAIN rg |-> FALSE]

(***************************************************************************)
(* Adapter injection: get_peft_model(model, LoraConfig).                   *)
(***************************************************************************)
config == [r |-> 8, lora_alpha |-> 32,
           \* ["query_key_value"]
           target_modules |-> {<< "q", "u", "e", "r", "y", "_", "k", "e",
                                  "y", "_", "v", "a", "l", "u", "e" >>},
           lora_dropout |-> 5, bias |-> "none", task_type |-> "CAUSAL_LM",
           base_model_name_or_path |-> "", inference_mode |-> FALSE]

NoConfig == [r |-> 0, lora_alpha |-> 0, target_modules |-> {},
             lora_dropout |-> 0, bias |-> "none", task_type |-> "",
             base_model_name_or_path |-> "", inference_mode |-> FALSE]

\* key.endswith(target_key), character by character
EndsWith(key, t) ==
    /\ Len(t) <= Len(key)
    /\ SubSeq(key, Len(key) - Len(t) + 1, Len(key)) = t

\* target_module_found = any(key.endswith(target_key) for target_key in ...)
TargetModuleFound(key, target_modules) ==
    \E t \in target_modules : EndsWith(key, t)

\* module types a LoRA layer can replace
SupportedKinds == {"Linear4bit", "Linear", "Embedding"}

\* _find_and_replace: walk the modules in order, replacing every supported
\* target by a LoRA layer; an unsupported target raises where it is met
RECURSIVE FindAndReplace(_, _, _)
FindAndReplace(mods, cfg, i) ==
    IF i > Len(mods) THEN [modules |-> mods, error |-> "none"]
    ELSE IF ~TargetModuleFound(mods[i].key, cfg.target_modules)
         THEN FindAndReplace(mods, cfg, i + 1)
    ELSE IF mods[i].kind \notin SupportedKinds
         THEN [modules |-> mods, error |-> "ValueError"]
    ELSE FindAndReplace([mods EXCEPT ![i].lora_layer = TRUE, ![i].r = cfg.r],
                        cfg, i + 1)

\* update_layer and reset_lora_parameters: the two matrices exist only for
\* r > 0; lora_A is drawn at random (a0 stands for the draw), lora_B is zero
InitLoraA(m, r, a0) ==
    [j \in 1..m.in_features |-> [k \in 1..r |-> IF (j + k) % 2 = 0 THEN a0 ELSE -a0]]

\* an initialisation that fills lora_B with ones
InitLoraB_ones(m, r) == [k \in 1..r |-> [o \in 1..m.out_features |-> 1]]

InitLoraB(m, r) == [k \in 1..r |-> [o \in 1..m.out_features |-> 0]]

\* the freezing loop with its test inverted: the parameters whose name
\* contains "lora_" are the ones frozen
mark_lora_as_frozen(mods, rg) ==
    [p \in Params(mods) |-> IF IsLoraParam(p) THEN FALSE
                            ELSE (IF p \in DOMAIN rg THEN rg[p] ELSE TRUE)]

\* mark_only_lora_as_trainable with bias = "none": every parameter whose
\* name does not contain "lora_" stops requiring grad; fresh adapter
\* parameters require grad
mark_only_lora_as_trainable(mods, rg) ==
    [p \in Params(mods) |-> IF IsLoraParam(p) THEN
                                (IF p \in DOMAIN rg THEN rg[p] ELSE TRUE)
                            ELSE FALSE]

\* _freeze_adapter, applied when the config is in inference mode
FreezeAdapter(rg) == [p \in DOMAIN rg |-> IF IsLoraParam(p) THEN FALSE ELSE rg[p]]

LoraKeys(mods) ==
    {mods[i].key : i \in {j \in 1..Len(mods) : mods[j].lora_layer /\ mods[j].r > 0}}

LoraLayerKeys(mods) ==
    {mods[i].key : i \in {j \in 1..Len(mods) : mods[j].lora_layer}}

\* PeftModel(model, peft_config) -> LoraModel.add_adapter: the wrapped
\* model, or the error raised and the model as the failed call left it
PeftModel(mods, rg, cfg, a0) ==
    LET found == \E i \in 1..Len(mods) :
                    TargetModuleFound(mods[i].key, cfg.target_modules)
        rep   == FindAndReplace(mods, cfg, 1)
        rg2   == mark_only_lora_as_trainable(rep.modules, rg)
        lo    == [k \in LoraKeys(rep.modules) |->
                    [A |-> InitLoraA(ModuleAt(rep.modules, k), cfg.r, a0),
                     B |-> InitLoraB(ModuleAt(rep.modules, k), cfg.r)]]
    IN  IF rep.error # "none" \/ ~found
        THEN [error |-> "ValueError", modules |-> rep.modules, lora |-> lo,
              requires_grad |-> [p \in Params(rep.modules) |->
                                   IF p \in DOMAIN rg THEN rg[p] ELSE TRUE],
              peft_config |-> NoConfig]
        ELSE [error |-> "none", modules |-> rep.modules, lora |-> lo,
              requires_grad |-> IF cfg.inference_mode THEN FreezeAdapter(rg2)
                                ELSE rg2,
              peft_config |-> cfg]

\* get_peft_model: records the base model's identifier in the config and
\* wraps the model
get_peft_model(mods, rg, cfg, base_id, a0) ==
    PeftModel(mods, rg, [cfg EXCEPT !.base_model_name_or_path = base_id], a0)

\* param.numel(): a 4-bit weight is stored packed, two values per byte; a
\* LayerNorm weight has one value per feature
Numel(m, p) ==
    IF p[2] = "lora_A" THEN m.in_features * m.r
    ELSE IF p[2] = "lora_B" THEN m.r * m.out_features
    ELSE IF m.kind = "Linear4bit"
         THEN (WeightLen(m.in_features, m.out_features) + 1) \div 2
    ELSE IF m.kind = "LayerNorm" THEN m.in_features
    ELSE WeightLen(m.in_features, m.out_features)

\* a count that takes every parameter for a trainable one
print_all_parameters(mods, rg) ==
    LET count(i) == SeqSum([j \in 1..3 |->
                       LET p == << mods[i].key, << "weight", "lora_A", "lora_B" >>[j] >>
                       IN  IF p \in DOMAIN rg THEN Numel(mods[i], p) ELSE 0])
        total    == SeqSum([i \in 1..Len(mods) |-> count(i)])
    IN  [trainable_params |-> total, all_param |-> total,
         raised |-> IF total = 0 THEN "ZeroDivisionError" ELSE "none"]

\* print_trainable_parameters(model): the two counts it computes; the
\* line it prints divides by all_param, which raises on a model without
\* parameters
print_trainable_parameters(mods, rg) ==
    LET count(i, only) ==
            SeqSum([j \in 1..3 |->
               LET p == << mods[i].key, << "weight", "lora_A", "lora_B" >>[j] >>
               IN  IF p \in DOMAIN rg /\ (~only \/ rg[p])
                   THEN Numel(mods[i], p) ELSE 0])
        trainable_params == SeqSum([i \in 1..Len(mods) |-> count(i, TRUE)])
        all_param        == SeqSum([i \in 1..Len(mods) |-> count(i, FALSE)])
    IN  [trainable_params |-> trainable_params, all_param |-> all_param,
         raised |-> IF all_param = 0 THEN "ZeroDivisionError" ELSE "none"]

(***************************************************************************)
(* Forward and backward passes of the wrapped model.  Every linear layer   *)
(* sees the batch's activation vector x; a LoRA layer adds                 *)
(* scaling * (dropout(x) @ A) @ B to the frozen layer's output.            *)
(***************************************************************************)
\* weight @ x for a flat weight of outf rows
MatVec(w, x, outf) ==
    [o \in 1..outf |->
        SeqSum([j \in 1..Len(x) |-> w[(o - 1) * Len(x) + j] * x[j]])]

VecAdd(u, v) == [o \in 1..Len(u) |-> u[o] + v[o]]

\* lora_dropout zeroes the dropped activations, in training mode only
Dropout(x, dropped, train) ==
    [j \in 1..Len(x) |-> IF train /\ j \in dropped THEN 0 ELSE x[j]]

\* scaling = lora_alpha / r
Scaling(cfg) == cfg.lora_alpha \div cfg.r

\* the frozen path: the weight is dequantized for the product when it is
\* stored in 4 bits
BaseForward(m, qw, fw, x) ==
    IF m.kind = "Linear4bit"
    THEN MatVec(dequantize_4bit(qw[m.key]), x, m.out_features)
    ELSE MatVec(fw[m.key], x, m.out_features)

\* x @ A
XA(ab, x) == [k \in 1..Len(ab.B) |->
                SeqSum([j \in 1..Len(x) |-> x[j] * ab.A[j][k]])]

\* the adapter path of one layer: scaling * (x @ A) @ B
AdapterForward(ab, cfg, x, outf) ==
    LET h == XA(ab, x)
    IN  [o \in 1..outf |->
            Scaling(cfg) * SeqSum([k \in 1..Len(h) |-> h[k] * ab.B[k][o]])]

LinearKinds == {"Linear", "Linear4bit"}

LayerForward(m, qw, fw, lo, cfg, x, dropped, train) ==
    IF m.lora_layer /\ m.r > 0 /\ m.key \in DOMAIN lo
    THEN VecAdd(BaseForward(m, qw, fw, x),
                AdapterForward(lo[m.key], cfg, Dropout(x, dropped, train),
                               m.out_features))
    ELSE BaseForward(m, qw, fw, x)

ModelForward(mods, qw, fw, lo, cfg, x, dropped, train) ==
    [k \in KeysOfKind(mods, LinearKinds) |->
        LayerForward(ModuleAt(mods, k), qw, fw, lo, cfg, x, dropped, train)]

\* autograd ignoring requires_grad: every parameter accumulates a gradient
TrainableAll(rg) == DOMAIN rg

\* the parameters autograd accumulates a gradient for
Trainable(rg) == {p \in DOMAIN rg : rg[p]}

\* loss.backward(): g is the gradient of the loss with respect to a
\* layer's output
GradOf(p, lo, cfg, x, dropped, g) ==
    LET xd == Dropout(x, dropped, TRUE)
    IN  IF p[2] = "lora_A"
        THEN [j \in 1..Len(lo[p[1]].A) |->
                [k \in 1..Len(lo[p[1]].B) |->
                    g * Scaling(cfg) * xd[j] * SeqSum(lo[p[1]].B[k])]]
        ELSE IF p[2] = "lora_B"
        THEN LET h == XA(lo[p[1]], xd)
             IN  [k \in 1..Len(h) |->
                    [o \in 1..Len(lo[p[1]].B[k]) |-> g * Scaling(cfg) * h[k]]]
        ELSE [i \in 1..WeightLen(Len(x), OutFeatures) |->
                g * x[((i - 1) % Len(x)) + 1]]

IsZeroVec(v) == \A j \in 1..Len(v) : v[j] = 0

IsZeroMat(M) == \A i \in 1..Len(M) : IsZeroVec(M[i])

IsZeroGrad(p, G) == IF IsLoraParam(p) THEN IsZeroMat(G) ELSE IsZeroVec(G)

(***************************************************************************)
(* The optimizer.  AdamW with the history of its moments left out: a       *)
(* parameter moves one unit of the learning rate against the sign of its   *)
(* gradient, and does not move where the gradient is zero (weight decay    *)
(* is 0).                                                                  *)
(***************************************************************************)
StepVec(v, G) == [j \in 1..Len(v) |-> v[j] - Sign(G[j])]

StepMat(M, G) == [i \in 1..Len(M) |-> StepVec(M[i], G[i])]

StepCodes(c, G) == [j \in 1..Len(c) |-> (c[j] - Sign(G[j])) % 16]

\* the parameters handed to the optimizer: those that require grad when
\* the optimizer is created
OptimizerParams(rg) == Trainable(rg)

\* the parameters optimizer.step() updates: its own, where a gradient exists
Stepped(opt, gr) == DOMAIN opt \cap DOMAIN gr

(***************************************************************************)
(* Persistence of the adapter.                                             *)
(***************************************************************************)
peft_model_id == "qlora-finetuned-model"

\* model.state_dict(): every parameter with its stored value
StateDict(mods, qw, fw, lo) ==
    [p \in Params(mods) |->
        IF p[2] = "lora_A" THEN lo[p[1]].A
        ELSE IF p[2] = "lora_B" THEN lo[p[1]].B
        ELSE IF p[1] \in DOMAIN qw THEN qw[p[1]].codes
        ELSE fw[p[1]]]

\* a state dict that is saved whole
get_model_state_dict(sd) == sd

\* get_peft_model_state_dict with bias = "none": the entries whose name
\* contains "lora_"
get_peft_model_state_dict(sd) ==
    [p \in {q \in DOMAIN sd : IsLoraParam(q)} |-> sd[p]]

NoArtifact == [written |-> FALSE, weights |-> <<>>, config |-> NoConfig]

\* PeftModel.save_pretrained: adapter_model.bin and adapter_config.json,
\* the config written with inference_mode set
save_pretrained(sd, cfg) ==
    [written |-> TRUE,
     weights |-> get_peft_model_state_dict(sd),
     config  |-> [cfg EXCEPT !.inference_mode = TRUE]]

MatShape(M) == << Len(M), IF Len(M) = 0 THEN 0 ELSE Len(M[1]) >>

\* load_state_dict(strict = False) of the adapter weights: an entry is
\* copied into the parameter of its name when the shapes agree; an entry
\* the model has no parameter for is ignored; a shape that differs is
\* reported once every entry has been visited
LoadedValue(weights, p, cur) ==
    IF p \in DOMAIN weights /\ MatShape(weights[p]) = MatShape(cur)
    THEN weights[p] ELSE cur

SizeMismatch(weights, lo) ==
    \E p \in DOMAIN weights :
        /\ p[1] \in DOMAIN lo
        /\ MatShape(weights[p]) #
              MatShape(IF p[2] = "lora_A" THEN lo[p[1]].A ELSE lo[p[1]].B)

set_peft_model_state_dict(weights, lo) ==
    [k \in DOMAIN lo |->
        [A |-> LoadedValue(weights, <<k, "lora_A">>, lo[k].A),
         B |-> LoadedValue(weights, <<k, "lora_B">>, lo[k].B)]]

\* PeftModel.from_pretrained(model, model_id): wrap the given base model
\* with the saved config (in inference mode), then load the saved weights
PeftModel_from_pretrained(mods, rg, art, a0) ==
    LET w == PeftModel(mods, rg, [art.config EXCEPT !.inference_mode = TRUE], a0)
    IN  IF w.error # "none" THEN w
        ELSE [w EXCEPT !.lora  = set_peft_model_state_dict(art.weights, w.lora),
                       !.error = IF SizeMismatch(art.weights, w.lora)
                                 THEN "RuntimeError" ELSE "none"]

NoModel == [name_or_path |-> "", error |-> "none", modules |-> <<>>,
            qweight |-> <<>>, lora |-> <<>>, requires_grad |-> <<>>,
            peft_config |-> NoConfig]

(***************************************************************************)
(* Texts, the tokenizer and generation.  A text is a sequence of           *)
(* characters; the tokenizer maps a character to one token id.             *)
(***************************************************************************)
\* the characters str.strip() removes: those c with c.isspace().  A
\* character a string of this language cannot hold is written as its
\* Python escape.
Whitespace ==
    { "\t", "\n", "\\x0b", "\f", "\r", "\\x1c", "\\x1d", "\\x1e", "\\x1f", " ",
      "\\x85", "\\xa0", "\\u1680", "\\u2000", "\\u2001", "\\u2002", "\\u2003",
      "\\u2004", "\\u2005", "\\u2006", "\\u2007", "\\u2008", "\\u2009",
      "\\u200a", "\\u2028", "\\u2029", "\\u202f", "\\u205f", "\\u3000" }

\* str.strip()
strip(t) ==
    LET kept == {i \in 1..Len(t) : t[i] \notin Whitespace}
    IN  IF kept = {} THEN <<>>
        ELSE SubSeq(t, CHOOSE i \in kept : \A j \in kept : i <= j,
                       CHOOSE i \in kept : \A j \in kept : j <= i)

\* str.rfind(sub): the index, from 0, of the last occurrence, or -1
rfind(t, sub) ==
    LET at == {i \in 1..(Len(t) - Len(sub) + 1) :
                 SubSeq(t, i, i + Len(sub) - 1) = sub}
    IN  IF at = {} THEN -1
        ELSE (CHOOSE i \in at : \A j \in at : j <= i) - 1

\* str.find(sub): the index, from 0, of the first occurrence, or -1
find(t, sub) ==
    LET at == {i \in 1..(Len(t) - Len(sub) + 1) :
                 SubSeq(t, i, i + Len(sub) - 1) = sub}
    IN  IF at = {} THEN -1
        ELSE (CHOOSE i \in at : \A j \in at : i <= j) - 1

\* t[start:], a negative start counting from the end
SliceFrom(t, start) ==
    LET from == IF start >= 0 THEN start
                ELSE IF Len(t) + start >= 0 THEN Len(t) + start ELSE 0
    IN  SubSeq(t, from + 1, Len(t))

\* the characters of the tokenizer's vocabulary, in the order of their ids
Vocab ==
    << "W", "h", "a", "t", " ", "r", "e", "m", "n", "s", "f", "o", "A",
       "R", "D", "S", "?", "d", "l", "w", "b", "i", "y", "u", "g", "T",
       "M", "\n", "q", ":", "-", "O", "x", ".", "\r" >>

\* ids below this one are the tokenizer's special tokens; the last of
\* them is <|endoftext|>
NumSpecialTokens == 12

TokenId(c) ==
    NumSpecialTokens - 1 + CHOOSE i \in 1..Len(Vocab) : Vocab[i] = c

\* tokenizer(text, return_tensors="pt")
Tokenize(tok, t) ==
    [input_ids      |-> [i \in 1..Len(t) |-> TokenId(t[i])],
     attention_mask |-> [i \in 1..Len(t) |-> 1]]

\* tokenizer.decode(ids, skip_special_tokens=True)
Decode(tok, ids) ==
    LET text == SelectSeq(ids, LAMBDA id : id >= NumSpecialTokens)
    IN  [i \in 1..Len(text) |-> Vocab[text[i] - NumSpecialTokens + 1]]

\* the tokenizer the hub ships for model_id
AutoTokenizer(id) ==
    [name_or_path |-> id, eos_token_id |-> NumSpecialTokens - 1,
     pad_token_id |-> -1]

\* the prompt of the inference cell
InferencePrompt ==
    strip(<< "\n", "A", "n", "s", "w", "e", "r", " ", "t", "h", "i", "s", " ",
             "q", "u", "e", "s", "t", "i", "o", "n", " ", "t", "r", "u", "t",
             "h", "f", "u", "l", "l", "y", ":", "\n", "W", "h", "a", "t", " ",
             "a", "r", "e", " ", "t", "h", "e", " ", "t", "r", "e", "a", "t",
             "m", "e", "n", "t", "s", " ", "f", "o", "r", " ", "A", "R", "D",
             "S", "?", "\n", "-", "-", "-", "\n", "A", "n", "s", "w", "e", "r",
             ":", "\n" >>)

\* the questions the notebook asks
Question1 ==
    << "W", "h", "a", "t", " ", "a", "r", "e", " ", "t", "h", "e", " ",
       "t", "r", "e", "a", "t", "m", "e", "n", "t", "s", " ", "f", "o",
       "r", " ", "A", "R", "D", "S", "?" >>

Question2 ==
    << "W", "h", "a", "t", " ", "d", "o", "e", "s", " ", "l", "o", "w",
       " ", "m", "o", "b", "i", "l", "i", "t", "y", " ", "a", "n", "d",
       " ", "b", "u", "l", "g", "i", "n", "g", " ", "o", "f", " ", "T",
       "M", " ", "s", "u", "g", "g", "e", "s", "t", "?" >>

\* the f-string of generate_response around the question
PromptHead ==
    << "A", "n", "s", "w", "e", "r", " ", "t", "h", "i", "s", " ", "q",
       "u", "e", "s", "t", "i", "o", "n", " ", "t", "r", "u", "t", "h",
       "f", "u", "l", "l", "y", ":", "\n", " ", " ", " ", " " >>

PromptTail ==
    << "\n", " ", " ", " ", " ", "-", "-", "-", "\n", " ", " ", " ", " ",
       "A", "n", "s", "w", "e", "r", ":", "\n", " ", " ", " ", " " >>

answer_start == << "A", "n", "s", "w", "e", "r", ":" >>

\* texts a model may continue a prompt with
Continuations ==
    { << " ", "O", "x", "y", "g", "e", "n", "." >>,
      << "\r", "\n", "R", "e", "s", "t", ".", "\r", "\n" >>,
      << " ", "A", "n", "s", "w", "e", "r", ":", " ", "n", "o", "n", "e" >>,
      << "n", "o", " ", "n", "o", " ", "n", "o", " ", "n", "o", " ", "n",
         "o", " ", "n", "o", " ", "n", "o", " ", "n", "o", " ", "n", "o",
         " ", "n", "o", " ", "n", "o", " ", "n", "o", " ", "n", "o", " ",
         "n", "o", " ", "n", "o", " ", "n", "o", " ", "n", "o", " ", "n" >>,
      <<>> }

\* what model.generation_config holds once the checkpoint is loaded: the
\* library's defaults and the end-of-sequence id the checkpoint ships, if
\* it ships one (tenths for the fractional options, -1 for None)
HubGenerationConfig(eos) ==
    [max_new_tokens |-> -1, max_length |-> 20, temperature |-> 10,
     top_p |-> 10, repetition_penalty |-> 10, num_return_sequences |-> 1,
     eos_token_id |-> eos, pad_token_id |-> -1]

HubGenerationConfigs ==
    {HubGenerationConfig(eos) : eos \in {-1, NumSpecialTokens - 1}}

NoTokenizer == [name_or_path |-> "", eos_token_id |-> -1, pad_token_id |-> -1]

NoEncoding == [input_ids |-> <<>>, attention_mask |-> <<>>]

NoCall == [model |-> "", encoding |-> NoEncoding,
           input_ids |-> <<>>, mask_given |-> FALSE,
           attention_mask |-> <<>>, generation_config |-> HubGenerationConfig(-1),
           sampled |-> <<>>]

\* model.generate(input_ids, attention_mask, generation_config): the input
\* followed by the new tokens, as many as the config allows; sampled is the
\* text the model continues with, ended by <|endoftext|>
generate(m, input_ids, gc, sampled) ==
    LET budget == IF gc.max_new_tokens >= 0 THEN gc.max_new_tokens
                  ELSE IF gc.max_length > Len(input_ids)
                       THEN gc.max_length - Len(input_ids) ELSE 0
        new    == [i \in 1..Len(sampled) |-> TokenId(sampled[i])]
                     \o << NumSpecialTokens - 1 >>
    IN  input_ids \o SubSeq(new, 1, IF Len(new) < budget THEN Len(new) ELSE budget)

\* the last three lines of generate_response
ExtractAnswer(response) ==
    LET response_start == find(response, answer_start)
    IN  strip(SliceFrom(response, response_start + Len(answer_start)))

\* a generate_response that reads the original model's tokenizer and
\* generation config when it is called with the original model
generate_response_per_model(question, m, G, sampled) ==
    LET prompt == strip(PromptHead \o question \o PromptTail)
        tok    == IF m = "orig_model" THEN G.orig_tokenizer ELSE G.tokenizer
        gc     == IF m = "orig_model" THEN G.orig_generation_config
                  ELSE G.generation_config
        enc    == Tokenize(tok, prompt)
        out    == generate(m, enc.input_ids, gc, sampled)
    IN  [encoding |-> enc,
         call     |-> [model |-> m, encoding |-> enc,
                       input_ids |-> enc.input_ids,
                       mask_given |-> TRUE,
                       attention_mask |-> enc.attention_mask,
                       generation_config |-> gc, sampled |-> sampled],
         outputs  |-> out,
         answer   |-> ExtractAnswer(Decode(tok, out))]

\* generate_response(question, model), G holding the notebook's global
\* names as they are bound when it is called
generate_response(question, m, G, sampled) ==
    LET prompt == strip(PromptHead \o question \o PromptTail)
        enc    == Tokenize(G.tokenizer, prompt)
        out    == generate(m, enc.input_ids, G.generation_config, sampled)
    IN  [encoding |-> enc,
         call     |-> [model |-> m, encoding |-> enc,
                       input_ids |-> enc.input_ids,
                       mask_given |-> TRUE,
                       attention_mask |-> enc.attention_mask,
                       generation_config |-> G.generation_config,
                       sampled |-> sampled],
         outputs  |-> out,
         answer   |-> ExtractAnswer(Decode(G.tokenizer, out))]

\* the cells that print generate_response(prompt, ...), in order
CallCells ==
    << [question |-> Question1, model |-> "model"],
       [question |-> Question1, model |-> "orig_model"],
       [question |-> Question2, model |-> "model"],
       [question |-> Question2, model |-> "orig_model"] >>

(***************************************************************************)
(* The notebook, cell by cell.                                             *)
(***************************************************************************)
\* the keyword arguments of transformers.TrainingArguments; learning_rate
\* in units of 1e-4, the unit by which the optimizer moves a value
args == [per_device_train_batch_size |-> 16, per_device_eval_batch_size |-> 8,
         logging_steps |-> 100, num_train_epochs |-> 1, learning_rate |-> 2,
         bf16 |-> TRUE, save_strategy |-> "no", output_dir |-> "outputs"]

\* draws of the random initialisation of lora_A
InitChoices == {1, -1}

\* activation vectors a well-formed batch gives the linear layers
GoodInputs == { [j \in 1..InFeatures |-> 1],
                [j \in 1..InFeatures |-> IF j = 1 THEN 2 ELSE 0] }

\* a batch whose tensors do not fit the model
BadInputs == { [j \in 1..(InFeatures + 1) |-> 1] }

\* sets of activations lora_dropout may zero in one pass
DropChoices == { {}, {1} }

\* gradient of the loss with respect to a layer's output
LossGrads == {1, -1}

NoBatch == [x |-> <<>>, size |-> 0, dropped |-> {}]

Malformed(b) == Len(b.x) # InFeatures

NotebookInit ==
    /\ pc = "load"
    /\ checkpoint \in PretrainedChoices
    /\ name_or_path = ""
    /\ modules = <<>>
    /\ qweight = <<>>
    /\ fpweight = <<>>
    /\ lora = <<>>
    /\ requires_grad = <<>>
    /\ peft_config = NoConfig
    /\ gradient_checkpointing = FALSE
    /\ use_cache = TRUE
    /\ training = FALSE
    /\ phase = "Idle"
    /\ optimizer = <<>>
    /\ global_step = 0
    /\ batch_idx = 0
    /\ batch = NoBatch
    /\ output = <<>>
    /\ grads = <<>>
    /\ failure = "none"
    /\ eval_loss = 0
    /\ artifact = NoArtifact
    /\ loaded = NoModel

\* model = AutoModelForCausalLM.from_pretrained(model_id, quantization_config)
LoadBase ==
    /\ pc = "load"
    /\ LET m == FromPretrained4bit(FalconModules, checkpoint, bnb_config)
       IN  /\ modules' = m.modules
           /\ qweight' = m.qweight
           /\ fpweight' = m.fpweight
           /\ requires_grad' = m.requires_grad
    /\ name_or_path' = model_id
    /\ pc' = "prepare"
    /\ UNCHANGED << checkpoint, lora, peft_config, gradient_checkpointing,
                    use_cache, training, trvars, pvars, qvars, ivars, lvars,
                    gvars, avars >>

\* model.gradient_checkpointing_enable(); prepare_model_for_kbit_training(model)
Prepare ==
    /\ pc = "prepare"
    /\ gradient_checkpointing' = TRUE
    /\ requires_grad' = prepare_model_for_kbit_training(requires_grad)
    /\ pc' = "inject"
    /\ UNCHANGED << checkpoint, name_or_path, modules, qweight, fpweight, lora,
                    peft_config, use_cache, training, trvars, pvars, qvars,
                    ivars, lvars,
                    gvars, avars >>

\* model = get_peft_model(model, config)
Inject ==
    /\ pc = "inject"
    /\ \E a0 \in InitChoices :
         LET w == get_peft_model(modules, requires_grad, config, name_or_path, a0)
         IN  /\ modules' = w.modules
             /\ lora' = w.lora
             /\ requires_grad' = w.requires_grad
             /\ peft_config' = w.peft_config
             /\ failure' = w.error
             /\ pc' = IF w.error = "none" THEN "trainer" ELSE "failed"
    /\ UNCHANGED << checkpoint, name_or_path, qweight, fpweight,
                    gradient_checkpointing, use_cache, training, phase,
                    optimizer, global_step, batch_idx, batch, output, grads,
                    eval_loss, pvars, qvars, ivars, lvars,
                    gvars, avars >>

\* the trainer cell without its last line: the cache flag is left as loaded
BuildTrainerKeepCache ==
    /\ pc = "trainer"
    /\ phase' = "Idle"
    /\ pc' = "train"
    /\ UNCHANGED << checkpoint, name_or_path, modules, qweight, fpweight, lora,
                    requires_grad, peft_config, gradient_checkpointing,
                    use_cache, training, optimizer, global_step, batch_idx,
                    batch, output, grads, failure, eval_loss, pvars, qvars,
                    ivars, lvars,
                    gvars, avars >>

\* trainer = transformers.Trainer(...); model.config.use_cache = False
BuildTrainer ==
    /\ pc = "trainer"
    /\ use_cache' = FALSE
    /\ phase' = "Idle"
    /\ pc' = "train"
    /\ UNCHANGED << checkpoint, name_or_path, modules, qweight, fpweight, lora,
                    requires_grad, peft_config, gradient_checkpointing,
                    training, optimizer, global_step, batch_idx, batch, output,
                    grads, failure, eval_loss, pvars, qvars, ivars, lvars,
                    gvars, avars >>

\* trainer.train(): the optimizer is created over the parameters that
\* require grad and the model is put in training mode
TrainBegin ==
    /\ pc = "train"
    /\ optimizer' = [p \in OptimizerParams(requires_grad) |-> [step |-> 0]]
    /\ training' = TRUE
    /\ global_step' = 0
    /\ batch_idx' = 0
    /\ pc' = "training"
    /\ UNCHANGED << checkpoint, name_or_path, modules, qweight, fpweight, lora,
                    requires_grad, peft_config, gradient_checkpointing,
                    use_cache, phase, batch, output, grads, failure, eval_loss,
                    pvars, qvars, ivars, lvars,
                    gvars, avars >>

\* training_step, first half: take the next batch and run the model on it.
\* An exception raised by the forward pass leaves train(): the Trainer
\* catches nothing per batch
Forward ==
    /\ pc = "training"
    /\ phase = "Idle"
    /\ batch_idx < NumBatches
    /\ \E x \in GoodInputs \cup BadInputs, d \in DropChoices :
         LET b == [x |-> x, size |-> args.per_device_train_batch_size,
                   dropped |-> d]
         IN  /\ batch' = b
             /\ IF Malformed(b)
                THEN /\ failure' = "RuntimeError"
                     /\ pc' = "failed"
                     /\ output' = output
                ELSE /\ output' = ModelForward(modules, qweight, fpweight, lora,
                                               peft_config, x, d, training)
                     /\ UNCHANGED << failure, pc >>
    /\ batch_idx' = batch_idx + 1
    /\ phase' = "Forward"
    /\ UNCHANGED << checkpoint, name_or_path, modules, qweight, fpweight, lora,
                    requires_grad, peft_config, gradient_checkpointing,
                    use_cache, training, optimizer, global_step, grads,
                    eval_loss, pvars, qvars, ivars, lvars,
                    gvars, avars >>

\* training_step, second half: loss.backward()
Backward ==
    /\ pc = "training"
    /\ phase = "Forward"
    /\ \E g \in LossGrads :
         grads' = [p \in Trainable(requires_grad) |->
                     GradOf(p, lora, peft_config, batch.x, batch.dropped, g)]
    /\ phase' = "Backward"
    /\ UNCHANGED << nbvars, optimizer, global_step, batch_idx, batch, output,
                    failure, eval_loss, pvars, qvars, ivars, lvars,
                    gvars, avars >>

\* optimizer.step(); lr_scheduler.step(); model.zero_grad()
OptimizerStep ==
    /\ pc = "training"
    /\ phase = "Backward"
    /\ LET S == Stepped(optimizer, grads)
       IN  /\ lora' = [k \in DOMAIN lora |->
                         [A |-> IF <<k, "lora_A">> \in S
                                THEN StepMat(lora[k].A, grads[<<k, "lora_A">>])
                                ELSE lora[k].A,
                          B |-> IF <<k, "lora_B">> \in S
                                THEN StepMat(lora[k].B, grads[<<k, "lora_B">>])
                                ELSE lora[k].B]]
           /\ qweight' = [k \in DOMAIN qweight |->
                            IF <<k, "weight">> \in S
                            THEN [qweight[k] EXCEPT !.codes =
                                    StepCodes(qweight[k].codes, grads[<<k, "weight">>])]
                            ELSE qweight[k]]
           /\ fpweight' = [k \in DOMAIN fpweight |->
                             IF <<k, "weight">> \in S
                             THEN StepVec(fpweight[k], grads[<<k, "weight">>])
                             ELSE fpweight[k]]
           /\ optimizer' = [p \in DOMAIN optimizer |->
                              IF p \in S THEN [step |-> optimizer[p].step + 1]
                              ELSE optimizer[p]]
    /\ grads' = <<>>
    /\ global_step' = global_step + 1
    /\ phase' = "OptimizerStep"
    /\ UNCHANGED << pc, checkpoint, name_or_path, modules, requires_grad,
                    peft_config, gradient_checkpointing, use_cache, training,
                    batch_idx, batch, output, failure, eval_loss, pvars, qvars,
                    ivars, lvars,
                    gvars, avars >>

\* the end of a step under evaluation_strategy = "epoch": the Trainer
\* evaluates inside train() once the last batch of the epoch is done
StepEndEvaluating ==
    /\ pc = "training"
    /\ phase = "OptimizerStep"
    /\ phase' = IF batch_idx = NumBatches THEN "Evaluate" ELSE "Idle"
    /\ pc' = IF batch_idx = NumBatches THEN "evaluate" ELSE "training"
    /\ UNCHANGED << checkpoint, name_or_path, modules, qweight, fpweight, lora,
                    requires_grad, peft_config, gradient_checkpointing,
                    use_cache, training, optimizer, global_step, batch_idx,
                    batch, output, grads, failure, eval_loss, pvars, qvars,
                    ivars, lvars,
                    gvars, avars >>

\* the end of a step: with evaluation_strategy and save_strategy "no" the
\* Trainer neither evaluates nor saves here; train() returns after the
\* last batch of the epoch
StepEnd ==
    /\ pc = "training"
    /\ phase = "OptimizerStep"
    /\ phase' = "Idle"
    /\ pc' = IF batch_idx = NumBatches THEN "evaluate" ELSE "training"
    /\ UNCHANGED << checkpoint, name_or_path, modules, qweight, fpweight, lora,
                    requires_grad, peft_config, gradient_checkpointing,
                    use_cache, training, optimizer, global_step, batch_idx,
                    batch, output, grads, failure, eval_loss, pvars, qvars,
                    ivars, lvars,
                    gvars, avars >>

\* trainer.evaluate(): the model in eval mode, forward passes only
EvaluateBegin ==
    /\ pc = "evaluate"
    /\ phase = "Idle"
    /\ training' = FALSE
    /\ \E x \in GoodInputs :
         /\ output' = ModelForward(modules, qweight, fpweight, lora,
                                   peft_config, x, {}, FALSE)
         /\ batch' = [x |-> x, size |-> args.per_device_eval_batch_size,
                      dropped |-> {}]
    /\ phase' = "Evaluate"
    /\ UNCHANGED << pc, checkpoint, name_or_path, modules, qweight, fpweight,
                    lora, requires_grad, peft_config, gradient_checkpointing,
                    use_cache, optimizer, global_step, batch_idx, grads,
                    failure, eval_loss, pvars, qvars, ivars, lvars,
                    gvars, avars >>

\* an evaluation that counts as a training step
EvaluateEndCounted ==
    /\ pc = "evaluate"
    /\ phase = "Evaluate"
    /\ eval_loss' = SeqSum([i \in 1..Len(modules) |->
                              IF modules[i].key \in DOMAIN output
                              THEN SeqSum(output[modules[i].key]) ELSE 0])
    /\ global_step' = global_step + 1
    /\ phase' = "Idle"
    /\ pc' = "save"
    /\ UNCHANGED << checkpoint, name_or_path, modules, qweight, fpweight, lora,
                    requires_grad, peft_config, gradient_checkpointing,
                    use_cache, training, optimizer, batch_idx,
                    batch, output, grads, failure, pvars, qvars, ivars, lvars,
                    gvars, avars >>

\* trainer.evaluate(), second half: the aggregate loss is reported
EvaluateEnd ==
    /\ pc = "evaluate"
    /\ phase = "Evaluate"
    /\ eval_loss' = SeqSum([i \in 1..Len(modules) |->
                              IF modules[i].key \in DOMAIN output
                              THEN SeqSum(output[modules[i].key]) ELSE 0])
    /\ phase' = "Idle"
    /\ pc' = "save"
    /\ UNCHANGED << checkpoint, name_or_path, modules, qweight, fpweight, lora,
                    requires_grad, peft_config, gradient_checkpointing,
                    use_cache, training, optimizer, global_step, batch_idx,
                    batch, output, grads, failure, pvars, qvars, ivars, lvars,
                    gvars, avars >>

\* model.save_pretrained("qlora-finetuned-model")
Save ==
    /\ pc = "save"
    /\ artifact' = save_pretrained(StateDict(modules, qweight, fpweight, lora),
                                   peft_config)
    /\ pc' = "reload"
    /\ UNCHANGED << checkpoint, name_or_path, modules, qweight, fpweight, lora,
                    requires_grad, peft_config, gradient_checkpointing,
                    use_cache, training, trvars, loaded, qvars, ivars, lvars,
                    gvars, avars >>

\* config = PeftConfig.from_pretrained(peft_model_id); the base model is
\* loaded again from config.base_model_name_or_path and the saved adapter
\* is attached to it.  The new model is what the name model now refers
\* to; the trainer keeps the trained one
Reload ==
    /\ pc = "reload"
    /\ \E a0 \in InitChoices :
         LET id == artifact.config.base_model_name_or_path
             m  == FromPretrained4bit(FalconModules, checkpoint, bnb_config)
             w  == PeftModel_from_pretrained(m.modules, m.requires_grad,
                                             artifact, a0)
         IN  loaded' = [name_or_path |-> id, error |-> w.error,
                        modules |-> w.modules, qweight |-> m.qweight,
                        lora |-> w.lora, requires_grad |-> w.requires_grad,
                        peft_config |-> w.peft_config]
    /\ pc' = "done"
    /\ UNCHANGED << checkpoint, name_or_path, modules, qweight, fpweight, lora,
                    requires_grad, peft_config, gradient_checkpointing,
                    use_cache, training, trvars, artifact, qvars, ivars, lvars,
                    gvars, avars >>

NotebookNext ==
    \/ LoadBase
    \/ Prepare
    \/ Inject
    \/ BuildTrainer
    \/ TrainBegin
    \/ Forward
    \/ Backward
    \/ OptimizerStep
    \/ StepEnd
    \/ EvaluateBegin
    \/ EvaluateEnd
    \/ Save
    \/ Reload

(***************************************************************************)
(* The library operations applied over their domains: the quantization     *)
(* round trip over weight matrices, adapter injection over configurations  *)
(* and architectures, adapter loading over base models.                    *)
(***************************************************************************)
\* values a weight takes
WeightVals == {-2000, 10, 300}

NoQuant == [codes |-> <<>>, absmax |-> <<>>, nested |-> FALSE,
            offset |-> 0, absmax2 |-> 0]

QuantOff ==
    /\ qpc = "off" /\ qM = <<>> /\ qQ = NoQuant /\ qD = <<>> /\ qQ2 = NoQuant

QuantInit ==
    /\ qpc = "start"
    /\ qM \in [1..(QBlockSize * NumQBlocks) -> WeightVals]
    /\ qQ = NoQuant /\ qD = <<>> /\ qQ2 = NoQuant

\* quantize_4bit(M), with and without double quantization
QuantizeM ==
    /\ qpc = "start"
    /\ \E dq \in BOOLEAN : qQ' = quantize_4bit(qM, dq)
    /\ qpc' = "quantized"
    /\ UNCHANGED << qM, qD, qQ2, nbvars, trvars, pvars, ivars, lvars,
                    gvars, avars >>

DequantizeQ ==
    /\ qpc = "quantized"
    /\ qD' = dequantize_4bit(qQ)
    /\ qpc' = "dequantized"
    /\ UNCHANGED << qM, qQ, qQ2, nbvars, trvars, pvars, ivars, lvars,
                    gvars, avars >>

\* quantize_4bit of the dequantized matrix, same parameters
Requantize ==
    /\ qpc = "dequantized"
    /\ qQ2' = quantize_4bit(qD, qQ.nested)
    /\ qpc' = "done"
    /\ UNCHANGED << qM, qQ, qD, nbvars, trvars, pvars, ivars, lvars,
                    gvars, avars >>

QuantNext == QuantizeM \/ DequantizeQ \/ Requantize

\* modules an architecture may hold, in definition order:
\* proj, attn.proj, attn.q_proj, mlp.dense, norm
ModulePool ==
    << Module(<< "p", "r", "o", "j" >>, "Linear", InFeatures, OutFeatures),
       Module(<< "a", "t", "t", "n", ".", "p", "r", "o", "j" >>,
              "Linear", InFeatures, OutFeatures),
       Module(<< "a", "t", "t", "n", ".", "q", "_", "p", "r", "o", "j" >>,
              "Linear", InFeatures, OutFeatures),
       Module(<< "m", "l", "p", ".", "d", "e", "n", "s", "e" >>,
              "Linear", InFeatures, OutFeatures),
       Module(<< "n", "o", "r", "m" >>, "LayerNorm", InFeatures, OutFeatures) >>

Pick(pool, S) == SelectSeq(pool, LAMBDA m : m.key \in S)

ArchitectureChoices ==
    {Pick(ModulePool, S) : S \in (SUBSET Keys(ModulePool)) \ {{}}}

\* target names a LoraConfig may carry: proj, dense, norm, _proj, absent
TargetPool ==
    { << "p", "r", "o", "j" >>, << "d", "e", "n", "s", "e" >>,
      << "n", "o", "r", "m" >>, << "_", "p", "r", "o", "j" >>,
      << "a", "b", "s", "e", "n", "t" >> }

\* ranks a LoraConfig may carry
MaxRank == 2

RankChoices == (-1)..MaxRank

InjectOff ==
    /\ ipc = "off" /\ iModules = <<>> /\ iConfig = NoConfig /\ iResult = NoModel

InjectInit ==
    /\ ipc = "start"
    /\ iModules \in ArchitectureChoices
    /\ \E r \in RankChoices, T \in (SUBSET TargetPool) \ {{}} :
         iConfig = [config EXCEPT !.r = r, !.target_modules = T]
    /\ iResult = NoModel

\* get_peft_model on a freshly loaded model, whose parameters all
\* require grad
ApplyGetPeftModel ==
    /\ ipc = "start"
    /\ LET w == get_peft_model(iModules, [p \in Params(iModules) |-> TRUE],
                               iConfig, model_id, 1)
       IN  iResult' = [name_or_path |-> model_id, error |-> w.error,
                       modules |-> w.modules, qweight |-> <<>>,
                       lora |-> w.lora, requires_grad |-> w.requires_grad,
                       peft_config |-> w.peft_config]
    /\ ipc' = "done"
    /\ UNCHANGED << iModules, iConfig, nbvars, trvars, pvars, qvars, lvars,
                    gvars, avars >>

InjectNext == ApplyGetPeftModel

\* base models of the hub: the one the adapter was trained on, one of the
\* same architecture and sizes, one of the same architecture and another
\* hidden size, one of another architecture
BaseChoices ==
    { [id |-> model_id,
       modules |-> FalconArchitecture(InFeatures, OutFeatures),
       inf |-> InFeatures, outf |-> OutFeatures],
      [id |-> "tiiuae/falcon-7b-instruct",
       modules |-> FalconArchitecture(InFeatures, OutFeatures),
       inf |-> InFeatures, outf |-> OutFeatures],
      [id |-> "tiiuae/falcon-40b",
       modules |-> FalconArchitecture(InFeatures + 1, OutFeatures + 1),
       inf |-> InFeatures + 1, outf |-> OutFeatures + 1],
      [id |-> "gpt2",
       \* transformer.h.0.attn.c_attn, lm_head
       modules |-> << Module(<< "t", "r", "a", "n", "s", "f", "o", "r", "m",
                                "e", "r", ".", "h", ".", "0", ".", "a", "t",
                                "t", "n", ".", "c", "_", "a", "t", "t", "n" >>,
                             "Linear", InFeatures, OutFeatures),
                      Module(<< "l", "m", "_", "h", "e", "a", "d" >>,
                             "Linear", InFeatures, OutFeatures) >>,
       inf |-> InFeatures, outf |-> OutFeatures] }

\* values a trained entry of lora_B may hold
TrainedVals == {-1, 0, 1, 2}

\* the artifacts save_pretrained writes for the notebook's config after
\* training on model_id
ArtifactChoices ==
    LET m0 == FromPretrained4bit(FalconModules, Pretrained(1, InFeatures, OutFeatures),
                                 bnb_config)
        w0 == get_peft_model(m0.modules,
                             prepare_model_for_kbit_training(m0.requires_grad),
                             config, model_id, 1)
    IN  { save_pretrained(
            StateDict(w0.modules, m0.qweight, m0.fpweight,
                      [k \in DOMAIN w0.lora |->
                         [A |-> InitLoraA(ModuleAt(w0.modules, k), config.r, a),
                          B |-> [i \in 1..config.r |->
                                   [o \in 1..OutFeatures |-> b[k]]]]]),
            w0.peft_config)
          : a \in InitChoices, b \in [DOMAIN w0.lora -> TrainedVals] }

LoadOff ==
    /\ lpc = "off" /\ lArtifact = NoArtifact /\ lResult = NoModel
    /\ lBase = [id |-> "", modules |-> <<>>, inf |-> 0, outf |-> 0]

LoadInit ==
    /\ lpc = "start"
    /\ lArtifact \in ArtifactChoices
    /\ lBase \in BaseChoices
    /\ lResult = NoModel

\* PeftModel.from_pretrained(base, peft_model_id) on a base model loaded
\* in 4 bits
ApplyFromPretrained ==
    /\ lpc = "start"
    /\ LET m == FromPretrained4bit(lBase.modules, Pretrained(1, lBase.inf, lBase.outf),
                                   bnb_config)
           w == PeftModel_from_pretrained(m.modules, m.requires_grad,
                                          lArtifact, 1)
       IN  lResult' = [name_or_path |-> lBase.id, error |-> w.error,
                       modules |-> w.modules, qweight |-> m.qweight,
                       lora |-> w.lora, requires_grad |-> w.requires_grad,
                       peft_config |-> w.peft_config]
    /\ lpc' = "done"
    /\ UNCHANGED << lArtifact, lBase, nbvars, trvars, pvars, qvars, ivars,
                    gvars, avars >>

LoadNext == ApplyFromPretrained

\* the notebook's variables while an operation is studied on its own
(***************************************************************************)
(* The inference cells, from the state the reload cell leaves: the         *)
(* tokenizer of the adapter's base with pad_token set to eos_token, and    *)
(* the reloaded model with the generation config its checkpoint ships.     *)
(***************************************************************************)
Unbound == -1

InferOff ==
    /\ gpc = "off"
    /\ tokenizer = NoTokenizer /\ orig_tokenizer = NoTokenizer
    /\ generation_config = HubGenerationConfig(-1)
    /\ orig_generation_config = HubGenerationConfig(-1)
    /\ generation_config_temperature = Unbound
    /\ generation_config_eod_token_id = Unbound
    /\ orig_generation_config_temperature = Unbound
    /\ orig_generation_config_eod_token_id = Unbound
    /\ encoding = NoEncoding /\ generate_call = NoCall
    /\ outputs = <<>> /\ printed = <<>>

InferInit ==
    /\ gpc = "origload"
    /\ tokenizer = [AutoTokenizer(model_id) EXCEPT
                      !.pad_token_id = AutoTokenizer(model_id).eos_token_id]
    /\ orig_tokenizer = NoTokenizer
    /\ generation_config \in HubGenerationConfigs
    /\ orig_generation_config = HubGenerationConfig(-1)
    /\ generation_config_temperature = Unbound
    /\ generation_config_eod_token_id = Unbound
    /\ orig_generation_config_temperature = Unbound
    /\ orig_generation_config_eod_token_id = Unbound
    /\ encoding = NoEncoding /\ generate_call = NoCall
    /\ outputs = <<>> /\ printed = <<>>

\* orig_tokenizer / orig_model = from_pretrained(orig_model_id): the same
\* checkpoint, so the same shipped generation config
LoadOrig ==
    /\ gpc = "origload"
    /\ orig_tokenizer' = AutoTokenizer(model_id)
    /\ orig_generation_config' = HubGenerationConfig(generation_config.eos_token_id)
    /\ gpc' = "genconfig"
    /\ UNCHANGED << tokenizer, generation_config, generation_config_temperature,
                    generation_config_eod_token_id,
                    orig_generation_config_temperature,
                    orig_generation_config_eod_token_id, encoding,
                    generate_call, outputs, printed >>
    /\ UNCHANGED << nbvars, trvars, pvars, qvars, ivars, lvars, avars >>

\* generation_config = model.generation_config and the seven assignments
\* that follow it: five set attributes of the object, two bind new names
SetGenerationConfig ==
    /\ gpc = "genconfig"
    /\ generation_config' =
         [generation_config EXCEPT !.max_new_tokens = 50,
                                   !.top_p = 7,
                                   !.num_return_sequences = 1,
                                   !.pad_token_id = tokenizer.eos_token_id,
                                   !.repetition_penalty = 11]
    /\ generation_config_temperature' = 7
    /\ generation_config_eod_token_id' = tokenizer.eos_token_id
    /\ gpc' = "origconfig"
    /\ UNCHANGED << tokenizer, orig_tokenizer, orig_generation_config,
                    orig_generation_config_temperature,
                    orig_generation_config_eod_token_id, encoding,
                    generate_call, outputs, printed >>
    /\ UNCHANGED << nbvars, trvars, pvars, qvars, ivars, lvars, avars >>

\* the same cell for orig_model.generation_config; it reads tokenizer,
\* not orig_tokenizer
SetOrigGenerationConfig ==
    /\ gpc = "origconfig"
    /\ orig_generation_config' =
         [orig_generation_config EXCEPT !.max_new_tokens = 50,
                                        !.top_p = 7,
                                        !.num_return_sequences = 1,
                                        !.pad_token_id = tokenizer.eos_token_id,
                                        !.repetition_penalty = 11]
    /\ orig_generation_config_temperature' = 7
    /\ orig_generation_config_eod_token_id' = tokenizer.eos_token_id
    /\ gpc' = "infer"
    /\ UNCHANGED << tokenizer, orig_tokenizer, generation_config,
                    generation_config_temperature,
                    generation_config_eod_token_id, encoding,
                    generate_call, outputs, printed >>
    /\ UNCHANGED << nbvars, trvars, pvars, qvars, ivars, lvars, avars >>

\* encoding = tokenizer(prompt); outputs = model.generate(
\*     input_ids=encoding.attention_mask, generation_config=generation_config)
InferenceCell ==
    /\ gpc = "infer"
    /\ \E sampled \in Continuations :
         LET enc == Tokenize(tokenizer, InferencePrompt)
         IN  /\ encoding' = enc
             /\ generate_call' =
                  [model |-> "model", encoding |-> enc,
                   input_ids |-> enc.attention_mask,
                   mask_given |-> FALSE, attention_mask |-> <<>>,
                   generation_config |-> generation_config,
                   sampled |-> sampled]
             /\ outputs' = generate("model", enc.attention_mask,
                                    generation_config, sampled)
    /\ gpc' = "respond"
    /\ UNCHANGED << tokenizer, orig_tokenizer, generation_config,
                    orig_generation_config, generation_config_temperature,
                    generation_config_eod_token_id,
                    orig_generation_config_temperature,
                    orig_generation_config_eod_token_id, printed >>
    /\ UNCHANGED << nbvars, trvars, pvars, qvars, ivars, lvars, avars >>

\* the global names generate_response can see when it is called
Globals ==
    [tokenizer |-> tokenizer, orig_tokenizer |-> orig_tokenizer,
     generation_config |-> generation_config,
     orig_generation_config |-> orig_generation_config]

\* print(generate_response(prompt, model)) and its three siblings; encoding
\* and outputs are locals of the function, the cell's globals keep theirs
Respond ==
    /\ gpc = "respond"
    /\ Len(printed) < Len(CallCells)
    /\ \E sampled \in Continuations :
         LET cell == CallCells[Len(printed) + 1]
             res  == generate_response(cell.question, cell.model, Globals, sampled)
         IN  /\ generate_call' = res.call
             /\ printed' = Append(printed, res.answer)
    /\ gpc' = IF Len(printed) + 1 = Len(CallCells) THEN "done" ELSE "respond"
    /\ UNCHANGED << tokenizer, orig_tokenizer, generation_config,
                    orig_generation_config, generation_config_temperature,
                    generation_config_eod_token_id,
                    orig_generation_config_temperature,
                    orig_generation_config_eod_token_id, encoding, outputs >>
    /\ UNCHANGED << nbvars, trvars, pvars, qvars, ivars, lvars, avars >>

InferNext ==
    \/ LoadOrig
    \/ SetGenerationConfig
    \/ SetOrigGenerationConfig
    \/ InferenceCell
    \/ Respond

(***************************************************************************)
(* Answer extraction over decoded texts: the last three lines of           *)
(* generate_response applied to texts with no marker, one marker and       *)
(* several markers, with and without whitespace around them.               *)
(***************************************************************************)
TextPieces ==
    { <<>>, << " " >>, << "\n", "O", "x", " " >>,
      << "A", "n", "s", "w", "e", "r" >>, answer_start,
      << "n", "o", ".", "\n" >>, << "\r", "\\xa0", "\f" >> }

DecodedTexts == {a \o b \o c : a \in TextPieces, b \in TextPieces, c \in TextPieces}

AnswerOff ==
    /\ apc = "off" /\ aResponse = <<>> /\ aAnswer = <<>>

AnswerInit ==
    /\ apc = "decoded"
    /\ aResponse \in DecodedTexts
    /\ aAnswer = <<>>

\* response[response.find('Answer:') + len('Answer:'):].strip()
ApplyExtractAnswer ==
    /\ apc = "decoded"
    /\ aAnswer' = ExtractAnswer(aResponse)
    /\ apc' = "returned"
    /\ UNCHANGED aResponse
    /\ UNCHANGED << nbvars, trvars, pvars, qvars, ivars, lvars, gvars >>

AnswerNext == ApplyExtractAnswer

NotebookOff ==
    /\ pc = "off"
    /\ checkpoint = <<>>
    /\ name_or_path = ""
    /\ modules = <<>> /\ qweight = <<>> /\ fpweight = <<>> /\ lora = <<>>
    /\ requires_grad = <<>>
    /\ peft_config = NoConfig
    /\ gradient_checkpointing = FALSE /\ use_cache = TRUE /\ training = FALSE
    /\ phase = "Idle" /\ optimizer = <<>> /\ global_step = 0 /\ batch_idx = 0
    /\ batch = NoBatch /\ output = <<>> /\ grads = <<>> /\ failure = "none"
    /\ eval_loss = 0
    /\ artifact = NoArtifact /\ loaded = NoModel

(***************************************************************************)
(* Specifications.                                                         *)
(***************************************************************************)
Init == NotebookInit /\ QuantOff /\ InjectOff /\ LoadOff /\ InferOff /\ AnswerOff

Next == NotebookNext

Spec == Init /\ [][Next]_vars

InitQuant == NotebookOff /\ QuantInit /\ InjectOff /\ LoadOff /\ InferOff /\ AnswerOff

SpecQuant == InitQuant /\ [][QuantNext]_vars

InitInject == NotebookOff /\ QuantOff /\ InjectInit /\ LoadOff /\ InferOff /\ AnswerOff

SpecInject == InitInject /\ [][InjectNext]_vars

InitLoad == NotebookOff /\ QuantOff /\ InjectOff /\ LoadInit /\ InferOff /\ AnswerOff

SpecLoad == InitLoad /\ [][LoadNext]_vars

InitInfer == NotebookOff /\ QuantOff /\ InjectOff /\ LoadOff /\ InferInit /\ AnswerOff

SpecInfer == InitInfer /\ [][InferNext]_vars

InitAnswer == NotebookOff /\ QuantOff /\ InjectOff /\ LoadOff /\ InferOff /\ AnswerInit

SpecAnswer == InitAnswer /\ [][AnswerNext]_vars

(***************************************************************************)
(* Properties of the notebook's run (Spec).                                *)
(***************************************************************************)
\* what the quantized weights were when the base model was loaded
LoadTimeQWeight ==
    FromPretrained4bit(FalconModules, checkpoint, bnb_config).qweight

\* C1: once the base model is loaded, no step changes the stored state of a
\* quantized weight (its 4-bit codes and its scales), which stays what the
\* load produced; an OptimizerStep that holds a nonzero gradient for an
\* adapter parameter changes that parameter.
C1_FrozenCodesKept ==
    [][ /\ pc # "load" => (qweight' = qweight /\ qweight = LoadTimeQWeight)
        /\ (phase = "Backward" /\ phase' = "OptimizerStep") =>
              \A p \in Stepped(optimizer, grads) :
                 ~IsZeroGrad(p, grads[p]) =>
                    /\ IsLoraParam(p)
                    /\ IF p[2] = "lora_A" THEN lora'[p[1]].A # lora[p[1]].A
                                          ELSE lora'[p[1]].B # lora[p[1]].B ]_vars

\* an OptimizerStep has moved lora_B away from its initial zero while the
\* quantized weights are those of the load
C1_Witness ==
    /\ phase = "OptimizerStep"
    /\ global_step >= 1
    /\ \E k \in DOMAIN lora : ~IsZeroMat(lora[k].B)
    /\ qweight = LoadTimeQWeight
    /\ DOMAIN qweight # {}

\* C2: after get_peft_model, the parameters that require grad are exactly
\* the lora_A and lora_B matrices; gradients and optimizer state exist for
\* these only, so no quantized weight receives a gradient.
C2_TrainableIsAdapters ==
    peft_config # NoConfig =>
        LET adapters == {p \in Params(modules) : IsLoraParam(p)}
        IN  /\ adapters # {}
            /\ Trainable(requires_grad) = adapters
            /\ DOMAIN grads \subseteq adapters
            /\ DOMAIN optimizer \subseteq adapters
            /\ \A k \in DOMAIN qweight : ~requires_grad[<<k, "weight">>]

\* a backward pass has produced gradients, one per adapter parameter
C2_Witness ==
    /\ phase = "Backward"
    /\ DOMAIN grads = {p \in Params(modules) : IsLoraParam(p)}
    /\ DOMAIN grads # {}
    /\ DOMAIN qweight # {}

\* the outputs of every linear layer computed from the frozen weights alone
BaseOutput(x) ==
    [k \in KeysOfKind(modules, LinearKinds) |->
        BaseForward(ModuleAt(modules, k), qweight, fpweight, x)]

\* C3: between injection and the first OptimizerStep every lora_B is zero
\* and, for every input and in both modes, the wrapped model's forward
\* output is the base model's output.
C3_NoOpAtInit ==
    (peft_config # NoConfig /\ global_step = 0) =>
        /\ \A k \in DOMAIN lora : IsZeroMat(lora[k].B)
        /\ \A x \in GoodInputs, d \in DropChoices, t \in BOOLEAN :
              ModelForward(modules, qweight, fpweight, lora, peft_config,
                           x, d, t) = BaseOutput(x)
        /\ (phase = "Forward" /\ ~Malformed(batch)) => output = BaseOutput(batch.x)

\* the first forward pass of training has run through the LoRA layers
C3_Witness ==
    /\ pc = "training"
    /\ phase = "Forward"
    /\ global_step = 0
    /\ DOMAIN lora # {}
    /\ ~Malformed(batch)
    /\ output = BaseOutput(batch.x)
    /\ \E k \in DOMAIN lora : ~IsZeroMat(lora[k].A)

\* the phase changes the training loop is described to make
ClaimedMoves ==
    { <<"Idle", "Forward">>, <<"Forward", "Backward">>,
      <<"Backward", "OptimizerStep">>, <<"OptimizerStep", "Idle">>,
      <<"OptimizerStep", "Evaluate">>, <<"OptimizerStep", "Checkpoint">>,
      <<"Evaluate", "Idle">>, <<"Checkpoint", "Idle">> }

\* the phase changes trainer.train() and trainer.evaluate() make
TrainerMoves ==
    { <<"Idle", "Forward">>, <<"Forward", "Backward">>,
      <<"Backward", "OptimizerStep">>, <<"OptimizerStep", "Idle">>,
      <<"Idle", "Evaluate">>, <<"Evaluate", "Idle">> }

\* every step consumes one batch, and Forward, Backward and OptimizerStep
\* of a step work on that batch
OneBatchPerStep ==
    /\ (phase # "Forward" /\ phase' = "Forward") =>
          (phase = "Idle" /\ batch_idx' = batch_idx + 1)
    /\ (phase # "Backward" /\ phase' = "Backward") =>
          (phase = "Forward" /\ batch' = batch /\ batch_idx' = batch_idx)
    /\ (phase # "OptimizerStep" /\ phase' = "OptimizerStep") =>
          /\ phase = "Backward"
          /\ batch' = batch /\ batch_idx' = batch_idx
          /\ global_step' = global_step + 1
          /\ global_step' = batch_idx
    /\ phase' \in {"Idle", "Evaluate"} => batch_idx' = batch_idx

\* C4 as stated: the loop moves Idle -> Forward -> Backward ->
\* OptimizerStep -> (Idle | Evaluate | Checkpoint), one batch per step, and
\* Evaluate and Checkpoint are entered only from OptimizerStep.
C4_EvaluateOnlyFromOptimizerStep ==
    [][ /\ phase' # phase => <<phase, phase'>> \in ClaimedMoves
        /\ OneBatchPerStep ]_vars

\* C4: the loop moves Idle -> Forward -> Backward -> OptimizerStep -> Idle,
\* one batch per step, OptimizerStep only after Forward and Backward on that
\* batch; Evaluate is entered only from Idle, once the last step of the run
\* has completed and train() has returned; Checkpoint is never entered.
C4_TrainingLoopOrder ==
    [][ /\ phase' # phase => <<phase, phase'>> \in TrainerMoves
        /\ OneBatchPerStep
        /\ (phase # "Evaluate" /\ phase' = "Evaluate") =>
              /\ phase = "Idle"
              /\ pc = "evaluate"
              /\ global_step = NumBatches
              /\ batch_idx = NumBatches
        /\ phase' # "Checkpoint" ]_vars

\* the whole epoch has been stepped through and the evaluation is running
C4_Witness ==
    /\ phase = "Evaluate"
    /\ global_step = NumBatches
    /\ batch_idx = NumBatches
    /\ DOMAIN optimizer # {}
    /\ \A p \in DOMAIN optimizer : optimizer[p].step = NumBatches

\* the fields of adapter_config.json the claim names
SavedFields(cfg) ==
    << cfg.r, cfg.lora_alpha, cfg.target_modules, cfg.lora_dropout,
       cfg.base_model_name_or_path >>

\* C6: save_pretrained writes the adapter matrices with their current
\* values and nothing else of the state dict, and a config holding the rank,
\* the scaling numerator, the target modules, the dropout and the base
\* model's identifier; it leaves the quantized weights, the other base
\* weights and the adapters as they were.
C6_SaveWritesAdaptersOnly ==
    [][ (pc = "save" /\ pc' # "save") =>
          /\ artifact'.written
          /\ DOMAIN artifact'.weights = {p \in Params(modules) : IsLoraParam(p)}
          /\ \A k \in DOMAIN lora :
                /\ artifact'.weights[<<k, "lora_A">>] = lora[k].A
                /\ artifact'.weights[<<k, "lora_B">>] = lora[k].B
          /\ SavedFields(artifact'.config) =
                << config.r, config.lora_alpha, config.target_modules,
                   config.lora_dropout, model_id >>
          /\ UNCHANGED << modules, qweight, fpweight, lora, requires_grad,
                          peft_config, optimizer >> ]_vars

\* a trained adapter has been written
C6_Witness ==
    /\ artifact.written
    /\ pc = "reload"
    /\ \E k \in DOMAIN lora :
          /\ ~IsZeroMat(lora[k].B)
          /\ artifact.weights[<<k, "lora_B">>] = lora[k].B
    /\ DOMAIN qweight # {}

\* C9 as stated: a malformed batch is reported, skipped without an
\* optimizer update, and the run continues with the next batch.
C9_MalformedBatchSkipped ==
    (batch # NoBatch /\ Malformed(batch)) =>
        /\ pc = "training"
        /\ failure = "none"

(***************************************************************************)
(* Properties of adapter loading over base models (SpecLoad).              *)
(***************************************************************************)
\* C5 as stated: loading an artifact onto a base model whose identifier
\* differs from the one the artifact records raises an error and attaches
\* no adapter weight at all.
C5_MismatchedBaseRejected ==
    (lpc = "done" /\ lBase.id # lArtifact.config.base_model_name_or_path) =>
        /\ lResult.error # "none"
        /\ DOMAIN lResult.lora = {}
        /\ LoraLayerKeys(lResult.modules) = {}

(***************************************************************************)
(* Properties of adapter injection over configurations (SpecInject).       *)
(***************************************************************************)
\* the last component of a dotted module name
LeafName(key) ==
    LET dots == {i \in 1..Len(key) : key[i] = "."}
        last == IF dots = {} THEN 0 ELSE SetMax(dots)
    IN  SubSeq(key, last + 1, Len(key))

\* C7 as stated: for a positive rank, a layer gets an adapter pair exactly
\* when its name is one of the configured target names; the pair has the
\* shapes (in_features, r) and (r, out_features); every other layer has no
\* trainable parameter.
C7_AdapterIffExactName ==
    (ipc = "done" /\ iResult.error = "none" /\ iConfig.r > 0) =>
        \A i \in 1..Len(iResult.modules) :
            LET m      == iResult.modules[i]
                target == LeafName(m.key) \in iConfig.target_modules
            IN  /\ (m.key \in DOMAIN iResult.lora) <=> target
                /\ m.key \in DOMAIN iResult.lora =>
                      /\ MatShape(iResult.lora[m.key].A) = << m.in_features, iConfig.r >>
                      /\ MatShape(iResult.lora[m.key].B) = << iConfig.r, m.out_features >>
                /\ ~target =>
                      \A p \in Trainable(iResult.requires_grad) : p[1] # m.key

\* C8 as stated: a configuration that names a target no layer of the base
\* model carries, or whose rank is not positive, is refused with an error,
\* and the model is left without any adapter.
C8_BadConfigRejected ==
    (/\ ipc = "done"
     /\ \/ iConfig.r <= 0
        \/ \E t \in iConfig.target_modules :
              \A i \in 1..Len(iModules) : ~EndsWith(iModules[i].key, t)) =>
        /\ iResult.error # "none"
        /\ iResult.modules = iModules
        /\ DOMAIN iResult.lora = {}

(***************************************************************************)
(* Properties of the quantization round trip (SpecQuant).                  *)
(***************************************************************************)
\* the wider of the two gaps between the value of code c and its
\* neighbours in the NF4 table
CodeStep(c) ==
    SetMax({NF4[t + 1] - NF4[t] : t \in {u \in {c, c + 1} : u >= 1 /\ u <= 15}})

\* quantizing the dequantized matrix gives back the stored codes and
\* scales, and every dequantized value is within one code step, at the
\* scale of its block, of the value it came from
RoundTripExact ==
    /\ qQ2 = qQ
    /\ \A i \in 1..Len(qM) :
          Abs(qD[i] - qM[i]) * FixedScale
             <= CodeStep(qQ.codes[i]) * BlockAbsmax(qM)[BlockOf(i)]

\* C10 as stated: quantize, dequantize, quantize is exactly idempotent on
\* codes and scales, and the round-trip error is at most one code step,
\* whatever the quantization parameters.
C10_RoundTripIdempotent == qpc = "done" => RoundTripExact

\* C10: every dequantized value is within one code step, at the scale of
\* its block, of the value it came from, plus what the block's scale lost
\* when it was stored; with the per-block scales stored as they are (no
\* double quantization) nothing is lost and quantize, dequantize, quantize
\* gives back the same codes and scales.
C10_RoundTripIdempotentPlainScales ==
    qpc = "done" =>
        /\ \A i \in 1..Len(qM) :
              Abs(qD[i] - qM[i]) * FixedScale
                 <= CodeStep(qQ.codes[i]) * BlockAbsmax(qM)[BlockOf(i)]
                    + FixedScale * Abs(StateAbsmax(qQ)[BlockOf(i)]
                                       - BlockAbsmax(qM)[BlockOf(i)])
        /\ ~qQ.nested => RoundTripExact

\* a lossy round trip without double quantization, over blocks of
\* different scales
C10_Witness ==
    /\ qpc = "done"
    /\ ~qQ.nested
    /\ qD # qM
    /\ qQ2 = qQ
    /\ \E b, c \in 1..Len(qQ.absmax) : qQ.absmax[b] # qQ.absmax[c]

(***************************************************************************)
(* Properties of the parameter count (Spec).                               *)
(***************************************************************************)
\* the sum over the LoRA layers of f(layer)
SumOverLora(mods, f(_)) ==
    SeqSum([i \in 1..Len(mods) |->
              IF mods[i].lora_layer /\ mods[i].r > 0 THEN f(mods[i]) ELSE 0])

\* the architecture at Falcon-7B's layer widths, loaded in 4 bits, wrapped
\* by get_peft_model with the notebook's config
FalconWidthsWrapped ==
    LET mods == replace_with_bnb_linear(FalconArchitecture(HiddenSize, QKVSize))
        w    == get_peft_model(mods, [p \in Params(mods) |-> FALSE], config,
                               model_id, 1)
    IN  print_trainable_parameters(w.modules, w.requires_grad)

\* C12 as stated: after injection the trainable count is the sum over the
\* targeted layers of 2 * r * dim, dim being the layer's width.
C12_TrainableCountTwoRDim ==
    peft_config # NoConfig =>
        LET n     == print_trainable_parameters(modules, requires_grad).trainable_params
            ins(m)  == 2 * m.r * m.in_features
            outs(m) == 2 * m.r * m.out_features
        IN  n = SumOverLora(modules, ins) \/ n = SumOverLora(modules, outs)

\* C12: after injection the trainable count print_trainable_parameters
\* reports is the sum over the targeted layers of r * (in_features +
\* out_features), the sizes of lora_A and lora_B; it is below the total
\* count, and at Falcon-7B's layer widths with r = 8 on the query_key_value
\* layers it is less than 1% of the total.
C12_TrainableCount ==
    peft_config # NoConfig =>
        LET n       == print_trainable_parameters(modules, requires_grad)
            pair(m) == m.r * (m.in_features + m.out_features)
        IN  /\ n.trainable_params = SumOverLora(modules, pair)
            /\ n.trainable_params > 0
            /\ n.trainable_params < n.all_param
            /\ 100 * FalconWidthsWrapped.trainable_params
                  < FalconWidthsWrapped.all_param
            /\ FalconWidthsWrapped.trainable_params
                  = NumLayers * config.r * (HiddenSize + QKVSize)

\* the wrapped model has been counted: two adapter matrices per
\* query_key_value layer, of different sizes
C12_Witness ==
    /\ pc = "trainer"
    /\ Cardinality(LoraKeys(modules)) = NumLayers
    /\ \A k \in LoraKeys(modules) :
          /\ Numel(ModuleAt(modules, k), <<k, "lora_A">>) = config.r * InFeatures
          /\ Numel(ModuleAt(modules, k), <<k, "lora_B">>) = config.r * OutFeatures
    /\ InFeatures # OutFeatures
    /\ print_trainable_parameters(modules, requires_grad).trainable_params
          = NumLayers * config.r * (InFeatures + OutFeatures)

(***************************************************************************)
(* Properties of the training run's settings and ownership (Spec).         *)
(***************************************************************************)
\* C13: from the moment the trainer is built, through every Forward and
\* Backward of the run, gradient checkpointing is enabled and the
\* key/value cache flag is off: it is switched off before the first step
\* and never on again while training runs.
C13_CheckpointingOnCacheOff ==
    (pc \in {"train", "training"} \/ phase \in {"Forward", "Backward"}) =>
        /\ gradient_checkpointing
        /\ ~use_cache

\* a backward pass of a later step of the run, the flags as they were set
C13_Witness ==
    /\ pc = "training"
    /\ phase = "Backward"
    /\ global_step >= 1
    /\ gradient_checkpointing
    /\ ~use_cache

\* C14: once training has begun, the adapter matrices, the optimizer state
\* and the step counter change only in the step from Backward to
\* OptimizerStep; Forward, Backward and the evaluation leave them as they
\* are.
C14_OnlyOptimizerStepMutates ==
    [][ (pc \notin {"load", "prepare", "inject", "trainer", "train"}) =>
          /\ (lora' # lora \/ optimizer' # optimizer \/ global_step' # global_step)
                => (phase = "Backward" /\ phase' = "OptimizerStep")
          /\ (phase' \in {"Forward", "Backward", "Evaluate"} \/ phase = "Evaluate")
                => UNCHANGED << lora, optimizer, global_step >> ]_vars

\* an evaluation has run on trained adapters, which are as the last
\* OptimizerStep left them
C14_Witness ==
    /\ pc = "save"
    /\ phase = "Idle"
    /\ batch.size = args.per_device_eval_batch_size
    /\ global_step = NumBatches
    /\ \E k \in DOMAIN lora : ~IsZeroMat(lora[k].B)
    /\ \E p \in DOMAIN optimizer : optimizer[p].step >= 1

(***************************************************************************)
(* Properties of the inference cells (SpecInfer).                          *)
(***************************************************************************)
\* C15: every generation call passes the encoding's token ids as input_ids
\* and the encoding's attention mask as attention_mask, both from the same
\* encoding; the attention mask is never passed where token ids are expected.
C15_GenerateArgumentsPaired ==
    generate_call # NoCall =>
       /\ generate_call.input_ids = generate_call.encoding.input_ids
       /\ generate_call.mask_given
       /\ generate_call.attention_mask = generate_call.encoding.attention_mask
       /\ generate_call.input_ids # generate_call.encoding.attention_mask

\* the seven options of the generation-configuration cell, as the cell
\* means to set them on gc
HoldsSevenOptions(gc) ==
    /\ gc.max_new_tokens = 50
    /\ gc.temperature = 7
    /\ gc.top_p = 7
    /\ gc.repetition_penalty = 11
    /\ gc.num_return_sequences = 1
    /\ gc.eos_token_id = tokenizer.eos_token_id
    /\ gc.pad_token_id = tokenizer.eos_token_id

\* C16: once the generation-configuration cell has run, the configuration
\* object generate consumes holds all seven options, the temperature 0.7
\* and the end-of-sequence id among them; likewise the original model's
\* object once its cell has run.
C16_ConfigHoldsSevenOptions ==
    /\ gpc \notin {"origload", "genconfig"} => HoldsSevenOptions(generation_config)
    /\ gpc \in {"infer", "respond", "done"} =>
          HoldsSevenOptions(orig_generation_config)
    /\ generate_call # NoCall => HoldsSevenOptions(generate_call.generation_config)

\* other values orig_tokenizer and orig_generation_config could hold
AltOrigTokenizers == {NoTokenizer, orig_tokenizer}

AltOrigGenerationConfigs ==
    {orig_generation_config, [orig_generation_config EXCEPT !.max_new_tokens = 3]}

\* C17: generate_response(question, m) tokenizes with the global tokenizer
\* and generates with the global generation_config whatever m is; the call
\* on the original model differs from the call on the fine-tuned model only
\* in the model, and what orig_tokenizer and orig_generation_config hold
\* changes neither the call nor the response.
C17_OrigGlobalsNeverInfluence ==
    (gpc \in {"respond", "done"} /\ printed # <<>>) =>
       LET cell    == CallCells[Len(printed)]
           sampled == generate_call.sampled
       IN  /\ generate_call.model = cell.model
           /\ generate_call.generation_config = generation_config
           /\ generate_call.encoding =
                 Tokenize(tokenizer, strip(PromptHead \o cell.question \o PromptTail))
           /\ \A ot \in AltOrigTokenizers, og \in AltOrigGenerationConfigs :
                 LET G  == [Globals EXCEPT !.orig_tokenizer = ot,
                                           !.orig_generation_config = og]
                     rm == generate_response(cell.question, "model", G, sampled)
                     ro == generate_response(cell.question, "orig_model", G, sampled)
                     r  == IF cell.model = "model" THEN rm ELSE ro
                 IN  /\ r.call = generate_call
                     /\ r.answer = printed[Len(printed)]
                     /\ [ro EXCEPT !.call.model = "model"] = rm

C17_Witness ==
    /\ gpc = "done"
    /\ Len(printed) = Len(CallCells)
    /\ generate_call.model = "orig_model"
    /\ orig_tokenizer # tokenizer
    /\ orig_tokenizer # NoTokenizer
    /\ printed[Len(printed)] # <<>>

(***************************************************************************)
(* Properties of answer extraction over decoded texts (SpecAnswer).        *)
(***************************************************************************)
\* the positions, from 1, at which the marker occurs in t
MarkerAt(t) ==
    {i \in 1..(Len(t) - Len(answer_start) + 1) :
        \A k \in 1..Len(answer_start) : t[i + k - 1] = answer_start[k]}

\* u is t without the whitespace at its ends
IsStripped(u, t) ==
    LET kept == {k \in 1..Len(t) : t[k] \notin Whitespace}
    IN  IF kept = {} THEN u = <<>>
        ELSE \E lo \in kept, hi \in kept :
                /\ \A k \in kept : lo <= k /\ k <= hi
                /\ u = [k \in 1..(hi - lo + 1) |-> t[lo + k - 1]]

\* C18: generate_response returns what follows the first 'Answer:' of the
\* decoded text, without the whitespace around it; when the decoded text
\* has no marker it returns the text from character index 6 on (stripped
\* the same way, empty when the text is that short), neither failing nor
\* returning the whole text.
C18_AnswerAfterFirstMarker ==
    apc = "returned" =>
       LET at    == MarkerAt(aResponse)
           first == IF at = {} THEN 0 ELSE CHOOSE i \in at : \A j \in at : i <= j
           from  == IF at = {} THEN 7 ELSE first + Len(answer_start)
           rest  == [k \in 1..(IF Len(aResponse) >= from
                               THEN Len(aResponse) - from + 1 ELSE 0)
                       |-> aResponse[from + k - 1]]
       IN  IsStripped(aAnswer, rest)

C18_Witness ==
    /\ apc = "returned"
    /\ MarkerAt(aResponse) = {}
    /\ Len(aResponse) > 6
    /\ aAnswer # <<>>
    /\ ~IsStripped(aAnswer, aResponse)

====
